---------------------------- MODULE Spec2Model ----------------------------
(***************************************************************************)
(* A model of answerkey-search (src/src/main.rs): the domain types Answer, *)
(* QuizAttempt, AnswerKey and AnswerKeySet, the candidate generator        *)
(* generate_valid_set, the reducer reduce, and the pipeline of             *)
(* extract_attempts_from_file and main.                                    *)
(*                                                                         *)
(* Vec<T> is a sequence (1-based here, 0-based in the source).  A panic is *)
(* the control state "panic" with the kind of the panic in err.            *)
(***************************************************************************)
EXTENDS Integers, Sequences, FiniteSets, TLC

(***************************************************************************)
(* Bounds of the model.                                                    *)
(***************************************************************************)
\* longest answer string of an input line, attempt or key
MaxLen == 2
\* most lines of attempts.txt
MaxAttempts == 3
\* most answer characters in the whole of attempts.txt
MaxCells == 4
\* most keys of an arbitrary AnswerKeySet handed to reduce
MaxKeys == 3

(***************************************************************************)
(* enum Answer, in the order of its declaration (which #[derive(Ord)]      *)
(* makes the order of the values).                                         *)
(***************************************************************************)
A == 0
B == 1
C == 2
D == 3
X == 4

Answer == {A, B, C, D, X}

\* the array [Answer::A, Answer::B, Answer::C, Answer::D] of generate_valid_set
Choices == <<A, B, C, D>>

\* impl fmt::Display for Answer
AnswerToString(a) ==
    CASE a = A -> "A"
      [] a = B -> "B"
      [] a = C -> "C"
      [] a = D -> "D"
      [] a = X -> "X"

\* char::to_uppercase on the characters the model reads
ToUppercase(c) ==
    CASE c = "a" -> "A"
      [] c = "b" -> "B"
      [] c = "c" -> "C"
      [] c = "d" -> "D"
      [] c = "x" -> "X"
      [] OTHER -> c

\* impl From<char> for Answer: the characters on which it panics
AnswerFromPanics(c) == c \notin {"A", "B", "C", "D", "X"}

\* impl From<char> for Answer: the value on the other characters
AnswerFrom(c) ==
    CASE c = "A" -> A
      [] c = "B" -> B
      [] c = "C" -> C
      [] c = "D" -> D
      [] c = "X" -> X

(***************************************************************************)
(* Helpers on sequences.                                                   *)
(***************************************************************************)
Range(s) == {s[i] : i \in DOMAIN s}

Reverse(s) == [i \in 1..Len(s) |-> s[Len(s) + 1 - i]]

\* every sequence over S of length exactly n
SeqsOfLen(S, n) == [1..n -> S]

\* every sequence over S of length at most n
SeqsUpTo(S, n) == UNION {SeqsOfLen(S, m) : m \in 0..n}

RECURSIVE Flatten(_)
\* Iterator::flat_map: the concatenation of a sequence of sequences
Flatten(ss) == IF ss = <<>> THEN <<>> ELSE Head(ss) \o Flatten(Tail(ss))

\* s with every element preceded by x
Prepend(x, ss) == [i \in 1..Len(ss) |-> <<x>> \o ss[i]]

\* s without its i-th element
RemoveAt(s, i) == SubSeq(s, 1, i - 1) \o SubSeq(s, i + 1, Len(s))

(***************************************************************************)
(* #[derive(Ord)] on Vec<Answer> (AnswerKey): lexicographic order.         *)
(***************************************************************************)
RECURSIVE KeyLess(_, _)
KeyLess(k1, k2) ==
    IF k2 = <<>> THEN FALSE
    ELSE IF k1 = <<>> THEN TRUE
    ELSE IF Head(k1) # Head(k2) THEN Head(k1) < Head(k2)
    ELSE KeyLess(Tail(k1), Tail(k2))

RECURSIVE InsertKey(_, _)
InsertKey(k, sorted) ==
    IF sorted = <<>> THEN <<k>>
    ELSE IF KeyLess(k, Head(sorted)) THEN <<k>> \o sorted
    ELSE <<Head(sorted)>> \o InsertKey(k, Tail(sorted))

RECURSIVE SortKeys(_)
\* Vec::sort on a vector of answer sequences
SortKeys(s) == IF s = <<>> THEN <<>> ELSE InsertKey(Head(s), SortKeys(Tail(s)))

RECURSIVE Dedup(_)
\* Vec::dedup: consecutive equal elements collapse to the first
Dedup(s) ==
    IF Len(s) <= 1 THEN s
    ELSE IF s[1] = s[2] THEN Dedup(Tail(s))
    ELSE <<Head(s)>> \o Dedup(Tail(s))

(***************************************************************************)
(* impl Ord for QuizAttempt compares the scores alone; Vec::sort is        *)
(* stable, so attempts of equal score keep their order.                    *)
(***************************************************************************)
RECURSIVE InsertAttempt(_, _)
\* att put before the sorted attempts behind it, after none it is equal to
InsertAttempt(att, sorted) ==
    IF sorted = <<>> THEN <<att>>
    ELSE IF att.score <= Head(sorted).score THEN <<att>> \o sorted
    ELSE <<Head(sorted)>> \o InsertAttempt(att, Tail(sorted))

RECURSIVE SortAttempts(_)
SortAttempts(s) ==
    IF s = <<>> THEN <<>> ELSE InsertAttempt(Head(s), SortAttempts(Tail(s)))

(***************************************************************************)
(* itertools: combinations, combinations_with_replacement, permutations.   *)
(***************************************************************************)
RECURSIVE Combinations(_, _)
\* the k-element subsequences of items, in lexicographic order of position
Combinations(items, k) ==
    IF k = 0 THEN << <<>> >>
    ELSE IF Len(items) < k THEN <<>>
    ELSE Prepend(Head(items), Combinations(Tail(items), k - 1))
             \o Combinations(Tail(items), k)

RECURSIVE CombinationsWithReplacement(_, _)
CombinationsWithReplacement(items, k) ==
    IF k = 0 THEN << <<>> >>
    ELSE IF items = <<>> THEN <<>>
    ELSE Prepend(Head(items), CombinationsWithReplacement(items, k - 1))
             \o CombinationsWithReplacement(Tail(items), k)

RECURSIVE PermutationsOf(_)
\* permutations(k) of a k-element vector: every order of its positions
PermutationsOf(items) ==
    IF items = <<>> THEN << <<>> >>
    ELSE Flatten([i \in 1..Len(items) |->
                     Prepend(items[i], PermutationsOf(RemoveAt(items, i)))])

(***************************************************************************)
(* struct QuizAttempt { answers: Vec<Answer>, score: i32 } is the record   *)
(* [answers |-> <<...>>, score |-> n]; struct AnswerKey is its vector of   *)
(* answers; struct AnswerKeySet is its vector of keys.                     *)
(***************************************************************************)
QuizAttempt(answers, score) == [answers |-> answers, score |-> score]

\* the test of from_string, had it compared as i32 (string.len() as i32) < score
ImpossibleScore_Signed(string, score) == Len(string) < score

\* QuizAttempt::from_string panics with "Impossible score": `score as usize`
\* of a negative i32 is at least 2^63, more than the length of any string
ImpossibleScore(string, score) == score < 0 \/ Len(string) < score

\* QuizAttempt::from_string panics with "Invalid letter"
InvalidLetter(string) ==
    \E i \in 1..Len(string) : AnswerFromPanics(ToUppercase(string[i]))

LetterToAnswer(c) == AnswerFrom(ToUppercase(c))

\* QuizAttempt::from_string, where it does not panic
from_string(string, score) ==
    QuizAttempt([i \in 1..Len(string) |-> LetterToAnswer(string[i])], score)

RECURSIVE MatchSum(_, _)
\* .iter().zip(&key.answers).map(|(&x, &y)| if x == y { 1 } else { 0 }).sum()
MatchSum(xs, ys) ==
    IF xs = <<>> \/ ys = <<>> THEN 0
    ELSE (IF Head(xs) = Head(ys) THEN 1 ELSE 0) + MatchSum(Tail(xs), Tail(ys))

\* QuizAttempt::check panics with "Unmatched lengths!"
check_panics(att, key) == Len(att.answers) # Len(key)

\* check, had it compared with >= in place of ==
check_AtLeast(att, key) == MatchSum(att.answers, key) >= att.score

\* QuizAttempt::check, where it does not panic
check(att, key) == MatchSum(att.answers, key) = att.score

\* the replacement vectors of generate_valid_set, had they been built with
\* combinations in place of combinations_with_replacement
AnswersToTryNoReplacement(num_mistakes) ==
    LET combs == Combinations(Choices, num_mistakes)
    IN  Dedup(SortKeys(Flatten([c \in 1..Len(combs) |-> PermutationsOf(combs[c])])))

\* answers_to_try of generate_valid_set
AnswersToTry(num_mistakes) ==
    LET combs == CombinationsWithReplacement(Choices, num_mistakes)
    IN  Dedup(SortKeys(Flatten([c \in 1..Len(combs) |-> PermutationsOf(combs[c])])))

RECURSIVE Overwrite(_, _, _)
\* for (&add, &a) in possible_mistakes.iter().zip(ans) { this_key[add] = a }
Overwrite(this_key, possible_mistakes, ans) ==
    IF possible_mistakes = <<>> \/ ans = <<>> THEN this_key
    ELSE Overwrite([this_key EXCEPT ![Head(possible_mistakes) + 1] = Head(ans)],
                   Tail(possible_mistakes), Tail(ans))

\* the positions 0..self.answers.len()
Positions(n) == [i \in 1..n |-> i - 1]

\* the closure of flat_map: small_key, every replacement vector written over
\* the answers at possible_mistakes
SmallKey(answers, possible_mistakes, answers_to_try) ==
    [j \in 1..Len(answers_to_try) |->
        Overwrite(answers, possible_mistakes, answers_to_try[j])]

\* the candidates of generate_valid_set before small_set.sort()
Candidates(att) ==
    LET num_mistakes == Len(att.answers) - att.score
        answers_to_try == AnswersToTry(num_mistakes)
        combs == Combinations(Positions(Len(att.answers)), num_mistakes)
        all == Flatten([c \in 1..Len(combs) |->
                           SmallKey(att.answers, combs[c], answers_to_try)])
    IN  SelectSeq(all, LAMBDA key : X \notin Range(key))

\* generate_valid_set without .filter(|key| !key.answers.contains(&Answer::X))
generate_valid_set_NoFilter(att) ==
    LET num_mistakes == Len(att.answers) - att.score
        answers_to_try == AnswersToTry(num_mistakes)
        combs == Combinations(Positions(Len(att.answers)), num_mistakes)
    IN  Dedup(SortKeys(Flatten([c \in 1..Len(combs) |->
                           SmallKey(att.answers, combs[c], answers_to_try)])))

\* generate_valid_set without small_set.dedup()
generate_valid_set_NoDedup(att) == SortKeys(Candidates(att))

\* QuizAttempt::generate_valid_set, for 0 <= score <= answers.len()
generate_valid_set(att) == Dedup(SortKeys(Candidates(att)))

\* reduce, had it kept the first key that passes alone (find for filter)
reduce_First(keys, att) ==
    LET kept == SelectSeq(keys, LAMBDA k : check(att, k))
    IN  IF kept = <<>> THEN <<>> ELSE <<Head(kept)>>

\* reduce, had it kept the keys that fail the check
reduce_Negated(keys, att) == SelectSeq(keys, LAMBDA k : ~check(att, k))

\* AnswerKeySet::reduce panics where check does
reduce_panics(keys, att) == \E i \in 1..Len(keys) : check_panics(att, keys[i])

\* AnswerKeySet::reduce, where it does not panic
reduce(keys, att) == SelectSeq(keys, LAMBDA k : check(att, k))

RECURSIVE Concat(_)
\* the collect::<String>() of as_string
Concat(strs) == IF strs = <<>> THEN "" ELSE Head(strs) \o Concat(Tail(strs))

\* AnswerKey::as_string
as_string(key) == Concat([i \in 1..Len(key) |-> AnswerToString(key[i])])

\* loaded_attempts.sort(); loaded_attempts.reverse()
SortByScore(attempts) == Reverse(SortAttempts(attempts))

RECURSIVE Fold(_, _)
\* .iter().fold(highest, |ans_set, att| ans_set.reduce(att))
Fold(ans_set, atts) ==
    IF atts = <<>> THEN ans_set ELSE Fold(reduce(ans_set, Head(atts)), Tail(atts))

\* the key set main computes from the attempts in the order of the file
Pipeline(attempts) ==
    LET sorted == SortByScore(attempts)
    IN  Fold(generate_valid_set(Head(sorted)), Tail(sorted))

(***************************************************************************)
(* The lines of attempts.txt the model reads.  A line is the vector of its *)
(* fields, str.split(","): the answer string, a vector of characters, and, *)
(* where the line has a comma, the text of the score.                      *)
(***************************************************************************)
\* the characters of an answer string: an answer, a lower-case answer, the
\* sentinel and a character that is no answer
InputChars == {"A", "b", "X", "E"}

\* the text of a score: the decimal text of an i32, or a text that is none
ScoreTexts ==
    {[isNumber |-> TRUE, value |-> v] : v \in -1..(MaxLen + 1)}
        \cup {[isNumber |-> FALSE, value |-> 0]}

AnswerStrings == SeqsUpTo(InputChars, MaxLen)

Lines ==
    {<<string>> : string \in AnswerStrings}
        \cup {<<string, text>> : string \in AnswerStrings, text \in ScoreTexts}

VARIABLES
    pc,               \* where the program is
    err,              \* the panic it ended with, "" while there is none
    line,             \* the line of the file read last
    loaded_attempts,  \* extract_attempts_from_file: the attempts in file order
    base,             \* main: the attempts sorted by descending score
    keys,             \* main: the AnswerKeySet (highest, then the fold's ans_set)
    idx,              \* main: the position in base of the fold's next attempt
    output,           \* the lines of possible_answers.txt
    c_att,            \* the attempt handed to check
    c_key,            \* the key handed to check
    c_result,         \* what check did: "none", "true", "false" or "panic"
    r_keys0,          \* an AnswerKeySet before any reduce
    r_keys,           \* that AnswerKeySet after the reduces of r_applied
    r_applied         \* the attempts it was reduced by, in order

pipeVars == <<pc, err, line, loaded_attempts, base, keys, idx, output>>
checkVars == <<c_att, c_key, c_result>>
reduceVars == <<r_keys0, r_keys, r_applied>>
vars == <<pc, err, line, loaded_attempts, base, keys, idx, output,
          c_att, c_key, c_result, r_keys0, r_keys, r_applied>>

CheckIdle == c_att = QuizAttempt(<<>>, 0) /\ c_key = <<>> /\ c_result = "none"
ReduceIdle == r_keys0 = <<>> /\ r_keys = <<>> /\ r_applied = <<>>
PipeIdle ==
    /\ pc = "idle" /\ err = "" /\ line = <<>> /\ loaded_attempts = <<>>
    /\ base = <<>> /\ keys = <<>> /\ idx = 0 /\ output = <<>>

(***************************************************************************)
(* The pipeline: extract_attempts_from_file, then main.                    *)
(***************************************************************************)
RECURSIVE Cells(_)
\* the answer characters read so far
Cells(attempts) ==
    IF attempts = <<>> THEN 0
    ELSE Len(Head(attempts).answers) + Cells(Tail(attempts))

Init ==
    /\ pc = "reading" /\ err = "" /\ line = <<>> /\ loaded_attempts = <<>>
    /\ base = <<>> /\ keys = <<>> /\ idx = 0 /\ output = <<>>
    /\ CheckIdle /\ ReduceIdle

\* a panic ends the process: the attempts loaded so far are dropped
Panic(kind) ==
    /\ pc' = "panic"
    /\ err' = kind
    /\ loaded_attempts' = <<>>

\* one step of .lines().map(|str| QuizAttempt::from_list(&str.split(","))):
\* from_list and from_string on the next line l of the file
ReadLine(l) ==
    /\ pc = "reading"
    /\ Len(loaded_attempts) < MaxAttempts
    /\ Cells(loaded_attempts) + Len(l[1]) <= MaxCells
    /\ line' = l
    /\ IF Len(l) < 2 THEN
            Panic("IndexOutOfBounds")
       ELSE IF ~l[2].isNumber THEN
            Panic("ScoreNotANumber")
       ELSE IF ImpossibleScore(l[1], l[2].value) THEN
            Panic("ImpossibleScore")
       ELSE IF InvalidLetter(l[1]) THEN
            Panic("InvalidLetter")
       ELSE /\ loaded_attempts' =
                   Append(loaded_attempts, from_string(l[1], l[2].value))
            /\ UNCHANGED <<pc, err>>
    /\ UNCHANGED <<base, keys, idx, output, checkVars, reduceVars>>

\* lens.iter().min() != lens.iter().max()
LengthsDiffer(attempts) ==
    \E i, j \in 1..Len(attempts) :
        Len(attempts[i].answers) # Len(attempts[j].answers)

\* the end of the file: the sanity check of the lengths, then the sort
EndOfFile ==
    /\ pc = "reading"
    /\ IF LengthsDiffer(loaded_attempts) THEN
            Panic("LengthsDiffer") /\ UNCHANGED base
       ELSE /\ base' = SortByScore(loaded_attempts)
            /\ pc' = "loaded"
            /\ UNCHANGED <<err, loaded_attempts>>
    /\ UNCHANGED <<line, keys, idx, output, checkVars, reduceVars>>

\* println!("Loaded {} answers of length {}", base.len(), base[0].answers.len())
PrintLoaded ==
    /\ pc = "loaded"
    /\ IF base = <<>> THEN Panic("IndexOutOfBounds")
       ELSE pc' = "search" /\ UNCHANGED <<err, loaded_attempts>>
    /\ UNCHANGED <<line, base, keys, idx, output, checkVars, reduceVars>>

\* let highest = base[0].generate_valid_set()
Generate ==
    /\ pc = "search"
    /\ keys' = generate_valid_set(base[1])
    /\ idx' = 2
    /\ pc' = "fold"
    /\ UNCHANGED <<err, line, loaded_attempts, base, output, checkVars, reduceVars>>

\* one step of base[1..].iter().fold(highest, |ans_set, att| ans_set.reduce(att))
ReduceStep ==
    /\ pc = "fold"
    /\ idx <= Len(base)
    /\ IF reduce_panics(keys, base[idx]) THEN
            Panic("UnmatchedLengths") /\ UNCHANGED <<keys, idx>>
       ELSE /\ keys' = reduce(keys, base[idx])
            /\ idx' = idx + 1
            /\ UNCHANGED <<pc, err, loaded_attempts>>
    /\ UNCHANGED <<line, base, output, checkVars, reduceVars>>

\* answerset.save_to_file("possible_answers.txt")
SaveToFile ==
    /\ pc = "fold"
    /\ idx > Len(base)
    /\ output' = [i \in 1..Len(keys) |-> as_string(keys[i])]
    /\ pc' = "saved"
    /\ UNCHANGED <<err, line, loaded_attempts, base, keys, idx, checkVars, reduceVars>>

Next ==
    \/ \E l \in Lines : ReadLine(l)
    \/ EndOfFile
    \/ PrintLoaded
    \/ Generate
    \/ ReduceStep
    \/ SaveToFile

Spec == Init /\ [][Next]_vars

(***************************************************************************)
(* QuizAttempt::check on its own: an attempt built as a struct literal     *)
(* (any score, as in the tests) and a key, of lengths that may differ.     *)
(***************************************************************************)
InitCheck ==
    /\ PipeIdle /\ ReduceIdle
    /\ c_att \in {QuizAttempt(answers, score) :
                      answers \in SeqsUpTo(Answer, MaxLen),
                      score \in -1..(MaxLen + 1)}
    /\ c_key \in SeqsUpTo(Answer, MaxLen)
    /\ c_result = "none"

\* att.check(&key)
Check ==
    /\ c_result = "none"
    /\ c_result' = IF check_panics(c_att, c_key) THEN "panic"
                   ELSE IF check(c_att, c_key) THEN "true" ELSE "false"
    /\ UNCHANGED <<c_att, c_key, pipeVars, reduceVars>>

NextCheck == Check

SpecCheck == InitCheck /\ [][NextCheck]_vars

(***************************************************************************)
(* AnswerKeySet::reduce on its own: any vector of keys of one length       *)
(* (AnswerKeySet::from takes any), reduced by two attempts of that length. *)
(* check compares answers for equality alone, so two answer values give    *)
(* every pattern of agreement between an attempt and a key.                *)
(***************************************************************************)
ReduceAnswers == {A, B}

\* the attempts of length n with 0 <= score <= n
AttemptsOfLen(n) ==
    {QuizAttempt(answers, score) :
        answers \in SeqsOfLen(ReduceAnswers, n), score \in 0..n}

\* the lengths an attempt may have to match every key of keys0
MatchingLens(keys0) ==
    IF keys0 = <<>> THEN 0..MaxLen ELSE {Len(keys0[1])}

InitReduce ==
    /\ PipeIdle /\ CheckIdle
    /\ r_keys0 \in UNION {SeqsUpTo(SeqsOfLen(ReduceAnswers, n), MaxKeys) :
                             n \in 0..MaxLen}
    /\ r_keys = r_keys0
    /\ r_applied = <<>>

\* ans_set.reduce(att)
Reduce(att) ==
    /\ ~reduce_panics(r_keys, att)
    /\ r_keys' = reduce(r_keys, att)
    /\ r_applied' = Append(r_applied, att)
    /\ UNCHANGED <<r_keys0, pipeVars, checkVars>>

ReduceFirst ==
    /\ r_applied = <<>>
    /\ \E n \in MatchingLens(r_keys0) : \E att \in AttemptsOfLen(n) : Reduce(att)

ReduceSecond ==
    /\ Len(r_applied) = 1
    /\ \E att \in AttemptsOfLen(Len(r_applied[1].answers)) : Reduce(att)

NextReduce == ReduceFirst \/ ReduceSecond

SpecReduce == InitReduce /\ [][NextReduce]_vars

(***************************************************************************)
(* What the claims speak of, stated apart from the operators above.        *)
(***************************************************************************)
\* the answers a key may hold: every answer but the sentinel
RealAnswers == {A, B, C, D}

\* the keys of length n over {A, B, C, D}
RealKeys(n) == SeqsOfLen(RealAnswers, n)

\* in how many positions two answer sequences of one length agree
Matches(answers, key) == Cardinality({i \in 1..Len(key) : answers[i] = key[i]})

\* in how many positions they differ
Differences(answers, key) == Cardinality({i \in 1..Len(key) : answers[i] # key[i]})

\* the key scores exactly what the attempt scored
Passes(att, key) == Matches(att.answers, key) = att.score

\* how often key occurs in the vector keys
Count(keys_, key) == Cardinality({i \in 1..Len(keys_) : keys_[i] = key})

\* the generator has run and no reduce has yet
Generated == pc = "fold" /\ idx = 2

\* the generator has run
GeneratorInvoked == pc \in {"fold", "saved"}

\* the seed attempt
Seed == base[1]

\* the quiz length
QuizLen == Len(base[1].answers)

\* C1: every key of the final set passes the check of every attempt
\* supplied, the seed included.
C1_FinalKeysPassEveryAttempt ==
    pc = "saved" =>
        \A i \in 1..Len(keys) : \A j \in 1..Len(base) : Passes(base[j], keys[i])

\* C2: the generator returns exactly the keys over {A,B,C,D} that differ
\* from the seed in exactly k = n - score positions.
C2_GeneratesExactlyKDifferences ==
    Generated =>
        Range(keys) = {key \in RealKeys(QuizLen) :
                          Differences(Seed.answers, key) = QuizLen - Seed.score}

\* C3, as claimed: a seed whose score is its length yields exactly one
\* candidate, its own answers, whatever they hold.
C3_ZeroMistakesYieldsSeed ==
    (Generated /\ Seed.score = QuizLen) => keys = <<Seed.answers>>

\* C3, amended: a seed whose score is its length yields exactly one
\* candidate, its own answers, when these hold no sentinel X, and no
\* candidate at all when they hold one.
C3_ZeroMistakesYieldsSeedUnlessSentinel ==
    (Generated /\ Seed.score = QuizLen) =>
        keys = IF X \in Range(Seed.answers) THEN <<>> ELSE <<Seed.answers>>

C3_Witness ==
    /\ Generated /\ Seed.score = QuizLen /\ QuizLen >= 2
    /\ X \in Range(Seed.answers) /\ A \in Range(Seed.answers)
    /\ keys = <<>>

\* C4: reduce keeps exactly the keys that pass the attempt's check, each as
\* often as it was there and in the order it was there, and so after any
\* reduces the set is within, and no larger than, the set it started from.
C4_ReduceKeepsExactlyPassingKeys ==
    [][r_applied' # r_applied =>
          LET att == r_applied'[Len(r_applied')]
          IN  /\ \A key \in Range(r_keys) \cup Range(r_keys') :
                    Count(r_keys', key) =
                        IF Passes(att, key) THEN Count(r_keys, key) ELSE 0
              /\ Len(r_keys') <= Len(r_keys)
              /\ Range(r_keys') \subseteq Range(r_keys0)
              /\ Len(r_keys') <= Len(r_keys0)]_vars

C4_Witness ==
    /\ Len(r_applied) = 1
    /\ Len(r_keys0) = 2 /\ Len(r_keys) = 1
    /\ Len(r_keys[1]) = 2
    /\ Passes(r_applied[1], r_keys[1])

\* C5: reducing by a then b leaves the set that reducing by b then a leaves.
C5_ReduceCommutes ==
    Len(r_applied) = 2 =>
        r_keys = reduce(reduce(r_keys0, r_applied[2]), r_applied[1])

C5_Witness ==
    /\ Len(r_applied) = 2
    /\ Len(r_keys0) = 3
    /\ Len(reduce(r_keys0, r_applied[1])) = 2
    /\ Len(reduce(r_keys0, r_applied[2])) = 1
    /\ Len(r_keys) = 1

\* C6: on an attempt and a key of one length check is true exactly when the
\* number of positions where they agree is the score (so an attempt that
\* scores its length accepts the key equal to its answers and no other);
\* on different lengths it panics.
C6_CheckCountsMatches ==
    c_result # "none" =>
        IF Len(c_att.answers) = Len(c_key)
        THEN /\ c_result = IF Matches(c_att.answers, c_key) = c_att.score
                           THEN "true" ELSE "false"
             /\ c_att.score = Len(c_key) =>
                    (c_result = "true" <=> c_att.answers = c_key)
        ELSE c_result = "panic"

C6_Witness ==
    /\ c_result = "true"
    /\ Len(c_key) = 2
    /\ c_att.score = 1
    /\ c_att.answers # c_key

\* the characters from_string takes for answers (it upper-cases the string)
RecognizedChars == {"A", "B", "C", "D", "X", "a", "b", "c", "d", "x"}

\* the line read last holds a character outside the alphabet, or a score
\* that is negative or more than the length of its answer string
MalformedLine ==
    /\ Len(line) = 2
    /\ line[2].isNumber
    /\ \/ \E i \in 1..Len(line[1]) : line[1][i] \notin RecognizedChars
       \/ line[2].value < 0
       \/ line[2].value > Len(line[1])

\* C7: a malformed line, an empty file or attempts of different lengths end
\* the run in a panic before the generator runs, with no key set and
\* nothing written; every attempt the generator or the reducer sees has
\* 0 <= score <= n.
C7_FailFast ==
    /\ MalformedLine => pc = "panic"
    /\ pc = "panic" => idx = 0 /\ keys = <<>> /\ output = <<>>
    /\ pc \in {"search", "fold", "saved"} =>
          /\ base # <<>>
          /\ Len(base) = Len(loaded_attempts)
          /\ \A j \in 1..Len(base) :
                /\ Len(base[j].answers) = QuizLen
                /\ Range(base[j].answers) \subseteq Answer
                /\ 0 <= base[j].score /\ base[j].score <= QuizLen

C7_Witness ==
    /\ pc = "panic"
    /\ err = "LengthsDiffer"
    /\ Len(line[1]) = 2

\* the string of a key, letter by letter
Letters(key) ==
    Concat([i \in 1..Len(key) |->
               CASE key[i] = A -> "A" [] key[i] = B -> "B"
                 [] key[i] = C -> "C" [] key[i] = D -> "D"])

\* C8: once generated, and after every reduce, every key has the quiz
\* length and holds no sentinel X, no key occurs twice, and the strings
\* written are strings of A, B, C and D.
C8_KeysWellFormed ==
    /\ GeneratorInvoked =>
          /\ \A i \in 1..Len(keys) : keys[i] \in RealKeys(QuizLen)
          /\ \A i, j \in 1..Len(keys) : i # j => keys[i] # keys[j]
    /\ pc = "saved" =>
          /\ Len(output) = Len(keys)
          /\ \A i \in 1..Len(output) :
                output[i] \in {Letters(key) : key \in RealKeys(QuizLen)}

C8_Witness ==
    /\ pc = "fold" /\ idx = 3
    /\ X \in Range(Seed.answers)
    /\ Len(keys) >= 2

\* C9: every key over {A,B,C,D} of the quiz length that passes the check of
\* every attempt supplied is in the final key set.
C9_NoTrueKeyLost ==
    pc = "saved" =>
        \A key \in RealKeys(QuizLen) :
            (\A j \in 1..Len(loaded_attempts) : Passes(loaded_attempts[j], key))
                => key \in Range(keys)

C9_Witness ==
    /\ pc = "saved"
    /\ Len(loaded_attempts) >= 2
    /\ QuizLen = 2
    /\ Seed.score = 0
    /\ keys # <<>>

\* C10: the final key set is the same for every order of the lines of the
\* file, ties for the highest score included.
C10_InputOrderIrrelevant ==
    pc = "saved" =>
        \A p \in Range(PermutationsOf(loaded_attempts)) :
            Range(Pipeline(p)) = Range(keys)

=============================================================================
